---- MODULE Spec2Model ----
(***************************************************************************)
(* Model of park_scheduler.py: optimize_park_scheduling(days, parks,       *)
(* companies) builds a PuLP minimisation problem (constraints 1-8 over the *)
(* 0/1 variables park_schedule[p][d] and the slack families slack_6,       *)
(* slack_7, slack_8), hands it to CBC, and prints the day - park pairs of  *)
(* the solution.                                                           *)
(*                                                                         *)
(* Days are the ordinals 1..n of a contiguous calendar range, so that      *)
(* d + timedelta(days=1) is d + 1 and (d2 - d1).days is d2 - d1.           *)
(* A constraint of the problem is a record                                 *)
(*   [name, vars, sense, rhs, slack]                                       *)
(* standing for  sum of variables[p][d] over <<p, d>> in vars              *)
(*               sense  rhs (+ the slack variable, when slack # <<>>).     *)
(***************************************************************************)
EXTENDS Integers, Sequences, FiniteSets, TLC

VARIABLES days, parks, companies, problem, pc, status, varValue, slackValue,
          objective, printed

vars == <<days, parks, companies, problem, pc, status, varValue, slackValue,
          objective, printed>>

-----------------------------------------------------------------------------
(* Bounds of the explored inputs.                                          *)
MaxDays == 3
MaxParks == 2
MaxRules == 1
MaxWindow == 2

(* Program constants.                                                      *)
PENALTY_6 == 10000
PENALTY_7 == 10000
PENALTY_8 == 10000

LpStatusOptimal == 1
LpStatusNotSolved == 0
LpStatusInfeasible == 0 - 1

(* varValue of a variable the solver assigned no value to.                 *)
None == 0 - 1

ParkNameList == <<"Magic Kingdom", "Animal Kingdom", "Epcot",
                  "Hollywood Studios", "Universal Islands of Adventure",
                  "Universal Studios", "Aquatica", "Busch gardens",
                  "Sea World", "Discovery Cove">>

(* The companies of lines 152-156, in the order of the companies list.     *)
CompanyNameList == <<"Disney", "Sea World", "Universal">>

-----------------------------------------------------------------------------
(* Input data.                                                             *)

RuleKinds == {"cannot_visit_days", "must_visit_day", "days_to_avoid",
              "preferred_days"}

RECURSIVE SubsetsUpTo(_, _)
SubsetsUpTo(S, k) ==
    IF k = 0 THEN {{}}
    ELSE LET prev == SubsetsUpTo(S, k - 1)
         IN  prev \cup {s \cup {e} : s \in prev, e \in S}

(* Day rules of np parks over nd days: at most MaxRules entries            *)
(* <<park index, field, day>>, must_visit_day being a single day.          *)
RuleSets(np, nd) ==
    {rs \in SubsetsUpTo((1..np) \X RuleKinds \X (1..nd), MaxRules) :
        \A e1 \in rs, e2 \in rs :
            (e1[2] = "must_visit_day" /\ e2[2] = "must_visit_day"
             /\ e1[1] = e2[1]) => e1 = e2}

RuleDays(rs, i, kind) == {e[3] : e \in {f \in rs : f[1] = i /\ f[2] = kind}}

MakePark(i, company, demanding, rs) ==
    [name |-> ParkNameList[i],
     company |-> company,
     demanding |-> demanding,
     cannot_visit_days |-> RuleDays(rs, i, "cannot_visit_days"),
     must_visit_day |-> IF RuleDays(rs, i, "must_visit_day") = {} THEN None
                        ELSE CHOOSE d \in RuleDays(rs, i, "must_visit_day") : TRUE,
     days_to_avoid |-> RuleDays(rs, i, "days_to_avoid"),
     preferred_days |-> RuleDays(rs, i, "preferred_days")]

(* The companies argument: a prefix of CompanyNameList, each company with  *)
(* its number_of_days.                                                     *)
CompanyLists ==
    UNION {{[i \in 1..k |-> [company |-> CompanyNameList[i],
                             number_of_days |-> w[i]]] :
              w \in [1..k -> 1..MaxWindow]} : k \in 0..Len(CompanyNameList)}

Range(s) == {s[i] : i \in DOMAIN s}

park_names == [i \in DOMAIN parks |-> parks[i].name]

DaySet == Range(days)
NameSet == Range(park_names)

NoValues == [p \in NameSet |-> [d \in DaySet |-> None]]

(* The demanding flags, the companies of the parks and the companies      *)
(* argument, as triples. Inputs without day rules take every combination   *)
(* of demanding flags (no company listed), every combination of park       *)
(* companies and company lists (no park demanding), and the two uniform    *)
(* profiles; inputs with day rules take the two uniform profiles: no soft  *)
(* rule applies to any pair of parks, or constraints 7 and 8 apply to      *)
(* every pair of parks.                                                    *)
DemandingProfiles(np) ==
    [1..np -> BOOLEAN] \X {[i \in 1..np |-> CompanyNameList[1]]} \X {<<>>}

CompanyProfiles(np) ==
    {[i \in 1..np |-> FALSE]} \X [1..np -> Range(CompanyNameList)]
        \X CompanyLists

UniformProfiles(np) ==
    {<<[i \in 1..np |-> FALSE], [i \in 1..np |-> CompanyNameList[1]], <<>>>>,
     <<[i \in 1..np |-> TRUE], [i \in 1..np |-> CompanyNameList[1]],
       <<[company |-> CompanyNameList[1], number_of_days |-> 1]>>>>}

AllProfiles(np) ==
    DemandingProfiles(np) \cup CompanyProfiles(np) \cup UniformProfiles(np)

Inputs(np, nd) ==
    (RuleSets(np, nd) \X UniformProfiles(np)) \cup ({{}} \X AllProfiles(np))

Init ==
    /\ \E nd \in 1..MaxDays, np \in 1..MaxParks :
         \E in \in Inputs(np, nd) :
              /\ days = [i \in 1..nd |-> i]
              /\ parks = [i \in 1..np |->
                            MakePark(i, in[2][2][i], in[2][1][i], in[1])]
              /\ companies = in[2][3]
    /\ problem = {}
    /\ pc = "constraint_1"
    /\ status = LpStatusNotSolved
    /\ varValue = NoValues
    /\ slackValue = {}
    /\ objective = 0
    /\ printed = <<>>

-----------------------------------------------------------------------------
(* Model construction: one step per numbered block of the function.       *)

NoSlack == <<>>

Con(name, vs, sense, rhs, slack) ==
    [name |-> name, vars |-> vs, sense |-> sense, rhs |-> rhs, slack |-> slack]

Constraint1Set ==
    {Con(<<"Constraint 1", d>>, {<<p, d>> : p \in NameSet}, "<=", 1, NoSlack) :
        d \in DaySet}

Constraint2Set ==
    {Con(<<"Constraint 2", p>>, {<<p, d>> : d \in DaySet}, "==", 1, NoSlack) :
        p \in NameSet}

Constraint3Set ==
    UNION {{Con(<<"Constraint 3", parks[i].name, d>>, {<<parks[i].name, d>>},
                "==", 0, NoSlack) : d \in parks[i].cannot_visit_days} :
           i \in DOMAIN parks}

Constraint4Set ==
    {Con(<<"Constraint 4", parks[i].name, parks[i].must_visit_day>>,
         {<<parks[i].name, parks[i].must_visit_day>>}, "==", 1, NoSlack) :
        i \in {j \in DOMAIN parks : parks[j].must_visit_day # None}}

(* Constraint 5 built and not added to the problem.                        *)
Constraint5SetDropped == {}

Constraint5Set ==
    UNION {{Con(<<"Constraint 5", parks[i].name, d>>, {<<parks[i].name, d>>},
                "==", 0, NoSlack) : d \in parks[i].days_to_avoid} :
           i \in DOMAIN parks}

(* Line 65 builds the preferred-day expression and drops it: nothing is    *)
(* added to the problem.                                                   *)
Constraint6Set == {}

Step(from, cs, to) ==
    /\ pc = from
    /\ problem' = problem \cup cs
    /\ pc' = to
    /\ UNCHANGED <<days, parks, companies, status, varValue, slackValue,
                   objective, printed>>

Constraint1 == Step("constraint_1", Constraint1Set, "constraint_2")
Constraint2 == Step("constraint_2", Constraint2Set, "constraint_3")
Constraint3 == Step("constraint_3", Constraint3Set, "constraint_4")
Constraint4 == Step("constraint_4", Constraint4Set, "constraint_5")
Constraint5 == Step("constraint_5", Constraint5Set, "constraint_6")
Constraint6 == Step("constraint_6", Constraint6Set, "constraint_7")

(* Lines 68-75: d1 ranges over days[:-1], p1 over parks[:-1] with its      *)
(* index, p2 over parks[idx+1:]; both orders of the two days share         *)
(* slack_7[p1][p2][d1][d2].                                                *)
Constraint7Pairs ==
    {q \in (1..(Len(days) - 1)) \X (1..(Len(parks) - 1)) \X (1..Len(parks)) :
        /\ parks[q[2]].demanding
        /\ q[3] > q[2]
        /\ parks[q[3]].demanding}

(* Constraint 7 without its slack variable.                                *)
Constraint7SetHard ==
    UNION {LET d1 == days[q[1]]
               d2 == d1 + 1
               p1 == parks[q[2]].name
               p2 == parks[q[3]].name
           IN  {Con(<<"Constraint 7", p1, p2, d1, d2>>,
                    {<<p1, d1>>, <<p2, d2>>}, "<=", 1, NoSlack),
                Con(<<"Constraint 7", p1, p2, d2, d1>>,
                    {<<p1, d2>>, <<p2, d1>>}, "<=", 1, NoSlack)} :
           q \in Constraint7Pairs}

(* Constraint 7 in one temporal order only.                                *)
Constraint7SetOneOrder ==
    UNION {LET d1 == days[q[1]]
               d2 == d1 + 1
               p1 == parks[q[2]].name
               p2 == parks[q[3]].name
           IN  {Con(<<"Constraint 7", p1, p2, d1, d2>>,
                    {<<p1, d1>>, <<p2, d2>>}, "<=", 1,
                    <<"slack_7", p1, p2, d1, d2>>)} :
           q \in Constraint7Pairs}

Constraint7Set ==
    UNION {LET d1 == days[q[1]]
               d2 == d1 + 1
               p1 == parks[q[2]].name
               p2 == parks[q[3]].name
               s  == <<"slack_7", p1, p2, d1, d2>>
           IN  {Con(<<"Constraint 7", p1, p2, d1, d2>>,
                    {<<p1, d1>>, <<p2, d2>>}, "<=", 1, s),
                Con(<<"Constraint 7", p1, p2, d2, d1>>,
                    {<<p1, d2>>, <<p2, d1>>}, "<=", 1, s)} :
           q \in Constraint7Pairs}

Constraint7 == Step("constraint_7", Constraint7Set, "constraint_8")

(* Lines 78-88: for each company, each pair of its parks in list order and *)
(* each pair of days d1 before d2 whose inclusive span exceeds the         *)
(* company's number_of_days; the two orders use slack_8[p1][p2][d1][d2]    *)
(* and slack_8[p1][p2][d2][d1].                                            *)
(* Constraint 8 with a span equal to number_of_days counted as an overrun. *)
Constraint8PairsInclusive ==
    {q \in (DOMAIN companies) \X (1..(Len(parks) - 1)) \X (1..Len(parks))
           \X (1..(Len(days) - 1)) \X (1..Len(days)) :
        /\ companies[q[1]].company = parks[q[2]].company
        /\ q[3] > q[2]
        /\ companies[q[1]].company = parks[q[3]].company
        /\ q[5] > q[4]
        /\ (days[q[5]] - days[q[4]]) + 1 >= companies[q[1]].number_of_days}

Constraint8Pairs ==
    {q \in (DOMAIN companies) \X (1..(Len(parks) - 1)) \X (1..Len(parks))
           \X (1..(Len(days) - 1)) \X (1..Len(days)) :
        /\ companies[q[1]].company = parks[q[2]].company
        /\ q[3] > q[2]
        /\ companies[q[1]].company = parks[q[3]].company
        /\ q[5] > q[4]
        /\ (days[q[5]] - days[q[4]]) + 1 > companies[q[1]].number_of_days}

Constraint8Set ==
    UNION {LET p1 == parks[q[2]].name
               p2 == parks[q[3]].name
               d1 == days[q[4]]
               d2 == days[q[5]]
           IN  {Con(<<"Constraint 8", p1, p2, d1, d2>>,
                    {<<p1, d1>>, <<p2, d2>>}, "<=", 1,
                    <<"slack_8", p1, p2, d1, d2>>),
                Con(<<"Constraint 8", p1, p2, d2, d1>>,
                    {<<p1, d2>>, <<p2, d1>>}, "<=", 1,
                    <<"slack_8", p1, p2, d2, d1>>)} :
           q \in Constraint8Pairs}

Constraint8 == Step("constraint_8", Constraint8Set, "solve")

-----------------------------------------------------------------------------
(* The solver: the feasible points and the optimum of the problem built.   *)
(* An assignment x gives x[p][d] in {0, 1} (park_schedule is LpInteger in  *)
(* [0, 1]); a slack variable takes the least value its constraints allow,  *)
(* since every slack variable has a positive weight in the objective.      *)

Lhs(c, x) == Cardinality({v \in c.vars : x[v[1]][v[2]] = 1})

HardHolds(c, x) ==
    IF c.sense = "==" THEN Lhs(c, x) = c.rhs ELSE Lhs(c, x) <= c.rhs

HardConstraints(prob) == {c \in prob : c.slack = NoSlack}
SoftConstraints(prob) == {c \in prob : c.slack # NoSlack}

(* lhs <= rhs + slack with slack in [0, 1] (lowBound 0, upBound 1).        *)
SlackFeasible(prob, x) ==
    \A c \in SoftConstraints(prob) : Lhs(c, x) - c.rhs <= 1

(* The feasible assignments, found park by park: row i of a partial        *)
(* assignment f is the day row of park i. A row must satisfy the hard      *)
(* constraints over that park's variables alone; a partial assignment is   *)
(* dropped once the variables already set push the left side of a hard     *)
(* "<=" constraint above its right side, which no later row can undo.      *)
RowLhs(c, r) == Cardinality({v \in c.vars : r[v[2]] = 1})

FeasibleRows(prob, p) ==
    LET own == {e \in HardConstraints(prob) : \A v \in e.vars : v[1] = p}
    IN  {r \in [DaySet -> {0, 1}] :
            \A c \in own : IF c.sense = "==" THEN RowLhs(c, r) = c.rhs
                           ELSE RowLhs(c, r) <= c.rhs}

IndexOf(p) == CHOOSE i \in DOMAIN park_names : park_names[i] = p

PartialLhs(c, f) ==
    Cardinality({v \in c.vars :
                    LET i == IndexOf(v[1]) IN i <= Len(f) /\ f[i][v[2]] = 1})

RECURSIVE RowCombos(_, _)
RowCombos(prob, i) ==
    IF i = 0 THEN {<<>>}
    ELSE LET rows == FeasibleRows(prob, park_names[i])
             caps == {c \in HardConstraints(prob) : c.sense = "<="}
         IN  {g \in {Append(f, r) : f \in RowCombos(prob, i - 1), r \in rows} :
                 \A c \in caps : PartialLhs(c, g) <= c.rhs}

(* All assignments satisfying every constraint of the problem for some     *)
(* slack values within bounds.                                             *)
FeasibleSet(prob) ==
    LET hard == HardConstraints(prob)
    IN  {x \in {[p \in NameSet |-> f[IndexOf(p)]] :
                   f \in RowCombos(prob, Len(park_names))} :
            /\ \A c \in hard : HardHolds(c, x)
            /\ SlackFeasible(prob, x)}

(* The slack variables that cannot stay at 0 under x: those of a           *)
(* constraint whose left side exceeds its right side.                      *)
SlackOn(prob, x) == {c.slack : c \in {e \in SoftConstraints(prob) : Lhs(e, x) > e.rhs}}

Family(ks, f) == {k \in ks : k # NoSlack /\ k[1] = f}

(* Lines 36-38 at the least slack values; a slack variable in no           *)
(* constraint stays at its lower bound 0.                                  *)
ObjectiveValue(prob, x) ==
    LET on == SlackOn(prob, x)
    IN  PENALTY_6 * Cardinality(Family(on, "slack_6"))
        + PENALTY_7 * Cardinality(Family(on, "slack_7"))
        + PENALTY_8 * Cardinality(Family(on, "slack_8"))

OptimalSet(prob) ==
    LET feas == FeasibleSet(prob)
        vals == {ObjectiveValue(prob, x) : x \in feas}
        best == CHOOSE m \in vals : \A n \in vals : m <= n
    IN  {x \in feas : ObjectiveValue(prob, x) = best}

(* Line 91, CBC finishing within timeLimit: the status is Optimal with an  *)
(* optimal assignment, or Infeasible.                                      *)
SolveFinished ==
    LET opt == OptimalSet(problem)
    IN  IF opt = {}
        THEN /\ status' = LpStatusInfeasible
             /\ varValue' = NoValues
             /\ slackValue' = {}
             /\ objective' = 0
        ELSE \E x \in opt :
             /\ status' = LpStatusOptimal
             /\ varValue' = x
             /\ slackValue' = SlackOn(problem, x)
             /\ objective' = ObjectiveValue(problem, x)

(* Line 91, timeLimit=300 expiring first: the status is Not Solved; the    *)
(* variables carry the best assignment found so far, any feasible one, or, *)
(* when none was found, no solution value.                                 *)
SolveTimeLimit ==
    /\ status' = LpStatusNotSolved
    /\ \/ \E x \in FeasibleSet(problem) :
             /\ varValue' = x
             /\ slackValue' = SlackOn(problem, x)
             /\ objective' = ObjectiveValue(problem, x)
       \/ /\ \E v \in {None, 0} :
                varValue' = [p \in NameSet |-> [d \in DaySet |-> v]]
          /\ slackValue' = {}
          /\ objective' = 0

Solve ==
    /\ pc = "solve"
    /\ (SolveFinished \/ SolveTimeLimit)
    /\ pc' = "extract"
    /\ UNCHANGED <<days, parks, companies, problem, printed>>

-----------------------------------------------------------------------------
(* Lines 97-102: the printed day - park pairs, days outermost.             *)

Truthy(value) == value # None /\ value # 0

RECURSIVE PrintLoop(_, _)
PrintLoop(i, j) ==
    IF i > Len(days) THEN <<>>
    ELSE IF j > Len(parks) THEN PrintLoop(i + 1, 1)
    ELSE IF Truthy(varValue[parks[j].name][days[i]])
         THEN <<<<days[i], parks[j].name>>>> \o PrintLoop(i, j + 1)
         ELSE PrintLoop(i, j + 1)

Extract ==
    /\ pc = "extract"
    /\ printed' = IF status >= 0 THEN PrintLoop(1, 1) ELSE <<>>
    /\ pc' = "done"
    /\ UNCHANGED <<days, parks, companies, problem, status, varValue,
                   slackValue, objective>>

Next == Constraint1 \/ Constraint2 \/ Constraint3 \/ Constraint4
        \/ Constraint5 \/ Constraint6 \/ Constraint7 \/ Constraint8
        \/ Solve \/ Extract

Spec == Init /\ [][Next]_vars

-----------------------------------------------------------------------------
(* The rules as the specification states them, on the input data alone.    *)

Injective(f) == \A i \in DOMAIN f, j \in DOMAIN f : f[i] = f[j] => i = j

(* Placements park index -> day obeying hard rules 1-5.                    *)
IsHardPlacement(f) ==
    /\ Injective(f)
    /\ \A i \in DOMAIN parks :
          /\ f[i] \notin parks[i].cannot_visit_days
          /\ f[i] \notin parks[i].days_to_avoid
          /\ parks[i].must_visit_day # None => f[i] = parks[i].must_visit_day

HardPlacements == {f \in [DOMAIN parks -> DaySet] : IsHardPlacement(f)}

HardSatisfiable == \E f \in [DOMAIN parks -> DaySet] : IsHardPlacement(f)

Schedule(f) ==
    [p \in NameSet |->
        LET i == IndexOf(p) IN [d \in DaySet |-> IF f[i] = d THEN 1 ELSE 0]]

HardSchedules == {Schedule(f) : f \in HardPlacements}

DaysOf(x, p) == {d \in DaySet : x[p][d] = 1}
ParksOn(x, d) == {p \in NameSet : x[p][d] = 1}
DayOf(x, i) == CHOOSE d \in DaySet : x[parks[i].name][d] = 1

Abs(n) == IF n < 0 THEN 0 - n ELSE n

ParkPairs == {q \in (DOMAIN parks) \X (DOMAIN parks) : q[1] < q[2]}

AdjacentDemandingPairs(x) ==
    {q \in ParkPairs :
        /\ parks[q[1]].demanding /\ parks[q[2]].demanding
        /\ Abs(DayOf(x, q[1]) - DayOf(x, q[2])) = 1}

WindowOverrunPairs(x) ==
    {t \in (DOMAIN companies) \X ParkPairs :
        /\ parks[t[2][1]].company = companies[t[1]].company
        /\ parks[t[2][2]].company = companies[t[1]].company
        /\ Abs(DayOf(x, t[2][1]) - DayOf(x, t[2][2])) + 1
              > companies[t[1]].number_of_days}

PreferredMisses(x) ==
    {i \in DOMAIN parks :
        parks[i].preferred_days # {} /\ DayOf(x, i) \notin parks[i].preferred_days}

ConsecutivePenalty(prob, x) ==
    PENALTY_7 * Cardinality(Family(SlackOn(prob, x), "slack_7"))

WindowPenalty(prob, x) ==
    PENALTY_8 * Cardinality(Family(SlackOn(prob, x), "slack_8"))

PrintedDays(p) == {printed[k][1] : k \in {n \in DOMAIN printed : printed[n][2] = p}}
PrintedAt(p) == {n \in DOMAIN printed : printed[n][2] = p}
PrintedOn(d) == {n \in DOMAIN printed : printed[n][1] = d}

NoDayRules ==
    \A i \in DOMAIN parks :
        /\ parks[i].cannot_visit_days = {} /\ parks[i].days_to_avoid = {}
        /\ parks[i].preferred_days = {} /\ parks[i].must_visit_day = None

-----------------------------------------------------------------------------
(* C1: when there are no more parks than days and hard rules 1-5 can be    *)
(* met, the problem built is feasible; every assignment it accepts puts    *)
(* each park on exactly one day and at most one park on each day, and so   *)
(* does the schedule printed by lines 97-102.                              *)
C1_BijectionInto ==
    /\ pc = "solve" =>
          LET feas == FeasibleSet(problem)
          IN  /\ (Len(parks) <= Len(days) /\ HardSatisfiable) => feas # {}
              /\ \A x \in feas :
                    /\ \A p \in NameSet : Cardinality(DaysOf(x, p)) = 1
                    /\ \A d \in DaySet : Cardinality(ParksOn(x, d)) <= 1
    /\ (pc = "done" /\ Len(parks) <= Len(days) /\ HardSatisfiable) =>
          /\ \A p \in NameSet : Cardinality(PrintedAt(p)) = 1
          /\ \A d \in DaySet : Cardinality(PrintedOn(d)) <= 1

(* C2: the schedule returned with status Optimal has the least weighted    *)
(* count of preferred-day misses, adjacent demanding pairs and company     *)
(* window overruns among all schedules obeying hard rules 1-5.             *)
ClaimedPenalty(x) ==
    PENALTY_6 * Cardinality(PreferredMisses(x))
    + PENALTY_7 * Cardinality(AdjacentDemandingPairs(x))
    + PENALTY_8 * Cardinality(WindowOverrunPairs(x))

C2_PenaltyMinimality ==
    (pc = "done" /\ status = LpStatusOptimal) =>
        \A y \in HardSchedules : ClaimedPenalty(varValue) <= ClaimedPenalty(y)

(* C3: the problem built is feasible exactly when hard rules 1-5 are       *)
(* satisfiable: its accepted assignments are the schedules obeying rules   *)
(* 1-5, each completed by slack values within [0, 1].                      *)
C3_SoftNeverBlocks ==
    pc = "solve" =>
        /\ FeasibleSet(problem) = HardSchedules
        /\ \A x \in HardSchedules : SlackFeasible(problem, x)

C3_Witness ==
    /\ pc = "solve"
    /\ HardSchedules # {}
    /\ \A x \in HardSchedules :
          /\ Family(SlackOn(problem, x), "slack_7") # {}
          /\ Family(SlackOn(problem, x), "slack_8") # {}
    /\ FeasibleSet(problem) # {}

(* C4: the preferred-day rule is in force: a returned schedule placing a   *)
(* park with preferred days on another day has that park's slack_6 at 1    *)
(* and pays PENALTY_6 for it; a park without preferred days has its        *)
(* slack_6 at 0.                                                           *)
C4_PreferredDayActive ==
    (pc = "done" /\ status = LpStatusOptimal) =>
        /\ \A i \in PreferredMisses(varValue) :
              /\ <<"slack_6", parks[i].name>> \in slackValue
              /\ objective >= PENALTY_6
        /\ \A i \in DOMAIN parks : parks[i].preferred_days = {} =>
              <<"slack_6", parks[i].name>> \notin slackValue

(* C5: a park with a must_visit_day is on that day and on no other in      *)
(* every accepted assignment and in every schedule printed under the       *)
(* guard of line 97.                                                       *)
C5_RequiredDay ==
    /\ pc = "solve" =>
          \A x \in FeasibleSet(problem) : \A i \in DOMAIN parks :
              parks[i].must_visit_day # None =>
                  DaysOf(x, parks[i].name) = {parks[i].must_visit_day}
    /\ (pc = "done" /\ status >= 0) =>
          \A i \in DOMAIN parks : parks[i].must_visit_day # None =>
              PrintedDays(parks[i].name) = {parks[i].must_visit_day}

(* C6: a park is on none of its cannot_visit_days and none of its          *)
(* days_to_avoid in any accepted assignment or printed schedule.           *)
C6_ForbiddenAndAvoidDays ==
    /\ pc = "solve" =>
          \A x \in FeasibleSet(problem) : \A i \in DOMAIN parks :
              DaysOf(x, parks[i].name)
                \cap (parks[i].cannot_visit_days \cup parks[i].days_to_avoid) = {}
    /\ pc = "done" =>
          \A i \in DOMAIN parks :
              PrintedDays(parks[i].name)
                \cap (parks[i].cannot_visit_days \cup parks[i].days_to_avoid) = {}

C6_Witness ==
    /\ pc = "done" /\ status = LpStatusOptimal /\ Len(parks) = Len(days)
    /\ Len(parks) >= 2
    /\ \E i \in DOMAIN parks : parks[i].days_to_avoid # {}
    /\ Len(printed) = Len(parks)

(* C7: when hard rules 1-5 cannot be met, in particular with more parks    *)
(* than days, the status is Infeasible and nothing is printed.             *)
C7_Infeasible ==
    /\ (pc = "done" /\ ~HardSatisfiable) =>
          status = LpStatusInfeasible /\ printed = <<>>
    /\ (pc = "done" /\ Len(parks) > Len(days)) =>
          status = LpStatusInfeasible /\ printed = <<>>

(* C8: a mapping in which some park is on no day or several days, or some  *)
(* day has two parks, is never handed out by a run that ends normally      *)
(* with a status other than Infeasible.                                    *)
C8_NoBrokenSchedule ==
    (pc = "done" /\ status >= 0) =>
        /\ \A p \in NameSet : Cardinality(PrintedAt(p)) = 1
        /\ \A d \in DaySet : Cardinality(PrintedOn(d)) <= 1

(* C9: for every schedule obeying hard rules 1-5 the consecutive-day       *)
(* penalty is PENALTY_7 times the number of unordered pairs of demanding   *)
(* parks on adjacent days, the two orders of a pair never both violated;   *)
(* two demanding parks on 2 days cost 10000, on 3 or more days 0.          *)
TwoDemandingOnly ==
    /\ Len(parks) = 2 /\ parks[1].demanding /\ parks[2].demanding
    /\ NoDayRules
    /\ Family({c.slack : c \in problem}, "slack_8") = {}

C9_ConsecutivePenalty ==
    /\ pc = "solve" =>
          \A x \in HardSchedules :
              /\ ConsecutivePenalty(problem, x)
                    = 10000 * Cardinality(AdjacentDemandingPairs(x))
              /\ \A k \in Family({c.slack : c \in problem}, "slack_7") :
                    Cardinality({c \in problem :
                                    c.slack = k /\ Lhs(c, x) > c.rhs}) <= 1
    /\ (pc = "solve" /\ TwoDemandingOnly /\ Len(days) = 2) =>
          /\ OptimalSet(problem) # {}
          /\ \A x \in OptimalSet(problem) : ObjectiveValue(problem, x) = 10000
    /\ (pc = "solve" /\ TwoDemandingOnly /\ Len(days) >= 3) =>
          /\ OptimalSet(problem) # {}
          /\ \A x \in OptimalSet(problem) :
                /\ ObjectiveValue(problem, x) = 0
                /\ AdjacentDemandingPairs(x) = {}
    /\ (pc = "done" /\ status = LpStatusOptimal /\ TwoDemandingOnly
        /\ Len(days) = 2) => objective = 10000
    /\ (pc = "done" /\ status = LpStatusOptimal /\ TwoDemandingOnly
        /\ Len(days) >= 3) =>
          objective = 0 /\ AdjacentDemandingPairs(varValue) = {}

C9_Witness ==
    /\ pc = "solve"
    /\ \E x \in HardSchedules :
          /\ AdjacentDemandingPairs(x) # {}
          /\ ConsecutivePenalty(problem, x) >= 10000
    /\ \E x \in HardSchedules :
          /\ AdjacentDemandingPairs(x) = {}
          /\ ConsecutivePenalty(problem, x) = 0
    /\ \E i \in DOMAIN parks : parks[i].demanding

(* C10: for every schedule obeying hard rules 1-5 the window penalty is    *)
(* PENALTY_8 times the number of unordered pairs of parks of one listed    *)
(* company whose inclusive day span exceeds its number_of_days; it is 0    *)
(* exactly when every listed company's parks lie within its window.        *)
CompanyDays(x, c) ==
    {DayOf(x, i) : i \in {j \in DOMAIN parks :
                            parks[j].company = companies[c].company}}

Min(S) == CHOOSE m \in S : \A n \in S : m <= n
Max(S) == CHOOSE m \in S : \A n \in S : n <= m

WithinWindow(x, c) ==
    \/ CompanyDays(x, c) = {}
    \/ Max(CompanyDays(x, c)) - Min(CompanyDays(x, c)) + 1
          <= companies[c].number_of_days

C10_WindowPenalty ==
    pc = "solve" =>
        \A x \in HardSchedules :
            /\ WindowPenalty(problem, x)
                  = 10000 * Cardinality(WindowOverrunPairs(x))
            /\ WindowPenalty(problem, x) = 0
                  <=> \A c \in DOMAIN companies : WithinWindow(x, c)

C10_Witness ==
    /\ pc = "solve"
    /\ \E x \in HardSchedules :
          /\ WindowOverrunPairs(x) # {}
          /\ WindowPenalty(problem, x) >= 10000
    /\ \E x \in HardSchedules, c \in DOMAIN companies :
          /\ Cardinality(CompanyDays(x, c)) >= 2
          /\ Max(CompanyDays(x, c)) - Min(CompanyDays(x, c)) + 1
                = companies[c].number_of_days
          /\ WindowPenalty(problem, x) = 0
====
